---------------------------- MODULE Spec2Model ----------------------------
(***************************************************************************)
(* propixx_flicker: flickering stimuli on a Propixx projector.             *)
(*                                                                         *)
(* The model follows src/propixx_flicker.py: the module-level state set by *)
(* init()/close(), one flickering stimulus (an OpacityFlickerStim or a     *)
(* BrightnessFlickerStim, masked or not), its oscillator (phase, _freq),   *)
(* the 12-sample multiplexer, the colour assignment of the two flicker     *)
(* classes and the OpenGL blend function that BrightnessFlickerStim.draw   *)
(* switches.                                                               *)
(*                                                                         *)
(* Numbers.  phase and _freq are Python floats (IEEE-754 binary64).  They  *)
(* are modelled bit for bit: a non-negative double below 2^13 is the       *)
(* natural number value * 2^FracBits, held as NLimbs little-endian limbs   *)
(* of LimbBits bits, and every float operation of the source is the exact  *)
(* operation followed by rounding to MantBits significant bits (nearest,   *)
(* ties to even).  np.cos is not computable here: the opacity returned by  *)
(* _next is a fixed-point number of OpScale-ths (see Waveform).            *)
(***************************************************************************)
EXTENDS Integers, Sequences, FiniteSets, TLC

-----------------------------------------------------------------------------
(* binary64 arithmetic on limb sequences *)

LimbBits == 15
LimbBase == 2^LimbBits
NLimbs == 5
FracBits == 62
MantBits == 53

Zero == [i \in 1..NLimbs |-> 0]

\* np.pi = 0x1.921FB54442D18p+1 = 7074237752028440 * 2^-51, times 2^FracBits
PI == <<16384, 17105, 27272, 18558, 12>>

RECURSIVE AddFrom(_, _, _, _)
AddFrom(V, W, i, c) ==
    IF i > NLimbs THEN <<>>
    ELSE LET s == V[i] + W[i] + c
         IN  <<s % LimbBase>> \o AddFrom(V, W, i + 1, s \div LimbBase)

Add(V, W) == AddFrom(V, W, 1, 0)

RECURSIVE SubFrom(_, _, _, _)
SubFrom(V, W, i, b) ==
    IF i > NLimbs THEN <<>>
    ELSE LET s == V[i] - W[i] - b
         IN  <<s % LimbBase>> \o SubFrom(V, W, i + 1, IF s < 0 THEN 1 ELSE 0)

\* V - W for V >= W
Sub(V, W) == SubFrom(V, W, 1, 0)

RECURSIVE MulFrom(_, _, _, _)
MulFrom(V, n, i, c) ==
    IF i > NLimbs THEN <<>>
    ELSE LET s == V[i] * n + c
         IN  <<s % LimbBase>> \o MulFrom(V, n, i + 1, s \div LimbBase)

\* V * n for a natural number n < LimbBase
MulSmall(V, n) == MulFrom(V, n, 1, 0)

RECURSIVE DivFrom(_, _, _, _)
DivFrom(V, d, i, r) ==
    IF i = 0 THEN <<>>
    ELSE LET t == r * LimbBase + V[i]
         IN  Append(DivFrom(V, d, i - 1, t % d), t \div d)

\* floor(V / d) for a natural number 0 < d < LimbBase
DivSmall(V, d) == DivFrom(V, d, NLimbs, 0)

RECURSIVE RemFrom(_, _, _, _)
RemFrom(V, d, i, r) ==
    IF i = 0 THEN r ELSE RemFrom(V, d, i - 1, (r * LimbBase + V[i]) % d)

RemSmall(V, d) == RemFrom(V, d, NLimbs, 0)

RECURSIVE CmpFrom(_, _, _)
CmpFrom(V, W, i) ==
    IF i = 0 THEN 0
    ELSE IF V[i] > W[i] THEN 1
    ELSE IF V[i] < W[i] THEN -1
    ELSE CmpFrom(V, W, i - 1)

\* -1, 0, 1 as V < W, V = W, V > W
Cmp(V, W) == CmpFrom(V, W, NLimbs)

BitLenInt(n) == CHOOSE k \in 0..LimbBits : n < 2^k /\ (k = 0 \/ n >= 2^(k - 1))

RECURSIVE BitLenFrom(_, _)
BitLenFrom(V, i) ==
    IF i = 0 THEN 0
    ELSE IF V[i] # 0 THEN LimbBits * (i - 1) + BitLenInt(V[i])
    ELSE BitLenFrom(V, i - 1)

BitLen(V) == BitLenFrom(V, NLimbs)

\* V mod 2^s
Low(V, s) ==
    [i \in 1..NLimbs |->
        IF LimbBits * i <= s THEN V[i]
        ELSE IF LimbBits * (i - 1) >= s THEN 0
        ELSE V[i] % 2^(s - LimbBits * (i - 1))]

Pow2(s) ==
    [i \in 1..NLimbs |-> IF i - 1 = s \div LimbBits THEN 2^(s % LimbBits) ELSE 0]

Bit(V, s) == (V[(s \div LimbBits) + 1] \div 2^(s % LimbBits)) % 2

\* The double nearest to the exact value V (plus a non-zero fraction below
\* the last limb when sticky): round to nearest, ties to even.
Round(V, sticky) ==
    LET L == BitLen(V) IN
    IF L <= MantBits THEN V
    ELSE LET s    == L - MantBits
             r    == Low(V, s)
             c    == Cmp(r, Pow2(s - 1))
             up   == c > 0 \/ (c = 0 /\ (sticky \/ Bit(V, s) = 1))
             base == Sub(V, r)
         IN  IF up THEN Add(base, Pow2(s)) ELSE base

\* float + float
FAdd(x, y) == Round(Add(x, y), FALSE)

\* int * float
FMulInt(x, n) == Round(MulSmall(x, n), FALSE)

\* float / int
FDivInt(x, d) == Round(DivSmall(x, d), RemSmall(x, d) # 0)

\* np.mod(x, y) for x >= 0 and y > 0: fmod, which is exact
RECURSIVE FMod(_, _)
FMod(x, y) == IF Cmp(x, y) < 0 THEN x ELSE FMod(Sub(x, y), y)

\* 2 * np.pi (a doubling is exact)
TWO_PI == MulSmall(PI, 2)

-----------------------------------------------------------------------------
(* bounds of the model *)

\* a call that would take the samples since the last phase reset past
\* MaxSamples is not taken
MaxSamples == 24

\* the sizes passed to _inv_circle_mask are 1..MaxSize
MaxSize == 100

\* the frequencies passed to flicker(), in Hz
Freqs == {-1, 0, 45, 60}

-----------------------------------------------------------------------------
(* the waveform *)

OpScale == 1000
AngleBits == 9

\* floor(V / 2^s), for a result that fits a machine integer
RECURSIVE ShiftRightFrom(_, _, _)
ShiftRightFrom(V, s, i) ==
    IF i = 0 THEN 0
    ELSE ShiftRightFrom(V, s, i - 1) +
         (IF LimbBits * i <= s THEN 0
          ELSE IF LimbBits * (i - 1) >= s THEN V[i] * 2^(LimbBits * (i - 1) - s)
          ELSE V[i] \div 2^(s - LimbBits * (i - 1)))

\* an angle in units of 2^-AngleBits rad
AngleOf(ph) == ShiftRightFrom(ph, FracBits - AngleBits, NLimbs)

PiA == AngleOf(PI)

\* (OpScale / 2) * cos(y) for |y| <= pi/2, y in angle units, by Bhaskara's
\* rational approximation (pi^2 - 4 y^2) / (pi^2 + y^2); error below 2.1/1000
HalfCos(y) == ((OpScale \div 2) * (PiA * PiA - 4 * y * y)) \div (PiA * PiA + y * y)

\* opacity = 0.5 * (1 + np.cos(self.phase)), in OpScale-ths, for a phase in
\* [0, 2 pi): OpScale at phase 0, 0 at phase pi
Waveform(ph) ==
    LET a == AngleOf(ph) IN
    IF 2 * a <= PiA THEN (OpScale \div 2) + HalfCos(a)
    ELSE IF 2 * a <= 3 * PiA THEN (OpScale \div 2) - HalfCos(a - PiA)
    ELSE (OpScale \div 2) + HalfCos(a - 2 * PiA)

-----------------------------------------------------------------------------
(* the state *)

VARIABLES
    propixx_on,         \* THIS.propixx_on
    output_frame_rate,  \* THIS.output_frame_rate
    hw_mode,            \* the sequence program last sent to the projector
    kind,               \* the class of the stimulus
    masked,             \* BrightnessFlickerStim.masked
    flickering,         \* self.flickering
    phase,              \* self.phase
    flicker_freq,       \* self.flicker_freq (Hz)
    _freq,              \* self._freq (rad per sub-frame)
    hist,               \* the phases since self.phase was last reset
    stim_color,         \* self.stimuli[q].color, q = 0..3 at index q + 1
    filter_color,       \* self.image_filters.stimuli[q].color
    mask_color,         \* self.mask_stimuli.stimuli[q].color
    stim_pos,           \* self.stimuli[q].pos
    filter_pos,         \* self.image_filters.stimuli[q].pos
    mask_pos,           \* self.mask_stimuli.stimuli[q].pos
    blend,              \* the OpenGL blend function (its source factor)
    opacity,            \* the samples _next returned during the last call
    draw_log,           \* what the last call did to the presentation layer
    mode_cmds,          \* the modes the last call sent with _set_propixx_mode
    circmask,           \* the array the last call of _inv_circle_mask returned
    last                \* the last call: its name, arguments and outcome

globals == <<propixx_on, output_frame_rate, hw_mode>>
class == <<kind, masked>>
oscillator == <<flickering, phase, flicker_freq, _freq, hist>>
colours == <<stim_color, filter_color, mask_color>>
positions == <<stim_pos, filter_pos, mask_pos>>

vars == <<globals, class, oscillator, colours, positions, blend, opacity,
          draw_log, mode_cmds, circmask, last>>

\* FULL_RES, FRAME_RES = [e/2 for e in FULL_RES], FRAME_CENTER
FULL_RES == <<1920, 1080>>
FRAME_RES == <<FULL_RES[1] \div 2, FULL_RES[2] \div 2>>
FRAME_CENTER == <<-(FRAME_RES[1] \div 2), FRAME_RES[2] \div 2>>

\* the positions passed as pos
Positions == {FRAME_CENTER, <<10, 20>>}

\* psychopy's default colour (1, 1, 1) and the window's grey (0, 0, 0)
White == <<OpScale, OpScale, OpScale>>
WinColor == <<0, 0, 0>>

None == <<>>

NoArgs == [freq |-> 0, use_propixx |-> FALSE, colors |-> None, pos |-> None,
           fail |-> 0, cls |-> "", mask |-> "", attr |-> "", color |-> None,
           size |-> 0]

Call(op, args, err) == [op |-> op, args |-> args, err |-> err]

\* QuadStim.set_pos: the positions of the four stimuli
QuadLayout(pos) ==
    << pos,
       <<pos[1] + FRAME_RES[1], pos[2]>>,
       <<pos[1], pos[2] - FRAME_RES[2]>>,
       <<pos[1] + FRAME_RES[1], pos[2] - FRAME_RES[2]>> >>

\* the module as imported, no stimulus constructed yet
Init ==
    /\ propixx_on = FALSE
    /\ output_frame_rate = 0
    /\ hw_mode = 0
    /\ kind = "None"
    /\ masked = FALSE
    /\ flickering = FALSE
    /\ phase = Zero
    /\ flicker_freq = 0
    /\ _freq = Zero
    /\ hist = <<Zero>>
    /\ stim_color = None
    /\ filter_color = None
    /\ mask_color = None
    /\ stim_pos = None
    /\ filter_pos = None
    /\ mask_pos = None
    /\ blend = "GL_SRC_ALPHA"
    /\ opacity = <<>>
    /\ draw_log = <<>>
    /\ mode_cmds = <<>>
    /\ circmask = None
    /\ last = Call("import", NoArgs, "none")

-----------------------------------------------------------------------------
(* construction *)

\* the stimulus classes, and the values of the mask argument ("" when the
\* argument is not given)
Classes == {"OpacityFlickerStim", "BrightnessFlickerStim"}
Masks == {"", "circle", "square"}

\* Mutant of MaskOutcome: any other mask is taken as no mask
MaskOutcome_Lenient(mask) ==
    IF mask = "circle" THEN "masked" ELSE "unmasked"

\* BrightnessFlickerStim.__init__: if 'mask' in kwargs: 'circle' sets
\* self.masked = True, anything else raises; else self.masked = False
MaskOutcome(mask) ==
    IF mask = "" THEN "unmasked"
    ELSE IF mask = "circle" THEN "masked"
    ELSE "NotImplementedError"

\* stim = cls(visual.ImageStim, pos = pos, mask = mask, ...); one stimulus
\* is followed, so the constructor runs while there is none
__init__(cls, mask, pos) ==
    LET args == [NoArgs EXCEPT !.cls = cls, !.mask = mask, !.pos = pos]
        outcome == IF cls = "BrightnessFlickerStim"
                   THEN MaskOutcome(mask) ELSE "unmasked"
    IN  /\ kind = "None"
        /\ opacity' = <<>>
        /\ draw_log' = <<>>
        /\ mode_cmds' = <<>>
        /\ circmask' = None
        /\ UNCHANGED <<globals, blend>>
        /\ IF outcome = "NotImplementedError"
           THEN \* raised before any attribute of the new object is set
                /\ last' = Call("__init__", args, "NotImplementedError")
                /\ UNCHANGED <<class, oscillator, colours, positions>>
           ELSE /\ last' = Call("__init__", args, "none")
                /\ kind' = cls
                /\ masked' = (outcome = "masked")
                /\ flickering' = FALSE
                /\ phase' = Zero
                /\ flicker_freq' = 0
                /\ _freq' = Zero
                /\ hist' = <<Zero>>
                /\ stim_color' = <<White, White, White, White>>
                /\ filter_color' = IF cls = "BrightnessFlickerStim"
                                   THEN <<White, White, White, White>>
                                   ELSE None
                /\ mask_color' = IF outcome = "masked"
                                 THEN <<WinColor, WinColor, WinColor, WinColor>>
                                 ELSE None
                /\ stim_pos' = QuadLayout(pos)
                /\ filter_pos' = IF cls = "BrightnessFlickerStim"
                                 THEN QuadLayout(pos) ELSE None
                /\ mask_pos' = IF outcome = "masked"
                               THEN QuadLayout(pos) ELSE None

-----------------------------------------------------------------------------
(* init() and close() *)

\* _set_propixx_mode(vpixx_mode): Matlab sends the sequence program to the
\* projector
_set_propixx_mode(vpixx_mode) ==
    /\ hw_mode' = vpixx_mode
    /\ mode_cmds' = <<vpixx_mode>>

\* Mutant of UsesProjector: the projector is switched whatever use_propixx
UsesProjector_Always(use_propixx) == TRUE

\* if use_propixx:
UsesProjector(use_propixx) == use_propixx

init(use_propixx) ==
    /\ IF UsesProjector(use_propixx)
       THEN /\ _set_propixx_mode(5)
            /\ propixx_on' = TRUE
            /\ output_frame_rate' = 120
       ELSE /\ output_frame_rate' = 60
            /\ mode_cmds' = <<>>
            /\ UNCHANGED <<hw_mode, propixx_on>>
    /\ opacity' = <<>>
    /\ draw_log' = <<>>
    /\ circmask' = None
    /\ last' = Call("init", [NoArgs EXCEPT !.use_propixx = use_propixx], "none")
    /\ UNCHANGED <<class, oscillator, colours, positions, blend>>

close ==
    /\ _set_propixx_mode(0)
    /\ opacity' = <<>>
    /\ draw_log' = <<>>
    /\ circmask' = None
    /\ last' = Call("close", NoArgs, "none")
    /\ UNCHANGED <<propixx_on, output_frame_rate, class, oscillator, colours,
                   positions, blend>>

-----------------------------------------------------------------------------
(* set_pos() *)

\* Mutant of SetPos: the filters and masks are left where they are
SetPos_NoCascade(pos) ==
    /\ stim_pos' = QuadLayout(pos)
    /\ UNCHANGED <<filter_pos, mask_pos>>

\* QuadStim.set_pos, and BrightnessFlickerStim.set_pos which also moves the
\* filters and, when masked, the mask stimuli
SetPos(pos) ==
    /\ stim_pos' = QuadLayout(pos)
    /\ filter_pos' = IF kind = "BrightnessFlickerStim"
                     THEN QuadLayout(pos) ELSE filter_pos
    /\ mask_pos' = IF kind = "BrightnessFlickerStim" /\ masked
                   THEN QuadLayout(pos) ELSE mask_pos

set_pos(pos) ==
    /\ kind # "None"
    /\ SetPos(pos)
    /\ opacity' = <<>>
    /\ draw_log' = <<>>
    /\ mode_cmds' = <<>>
    /\ circmask' = None
    /\ last' = Call("set_pos", [NoArgs EXCEPT !.pos = pos], "none")
    /\ UNCHANGED <<globals, class, oscillator, colours, blend>>

\* the colours passed to set('color', value)
Colors == {WinColor}

\* QuadStim.set(attr, value) for attr = 'pos' and attr = 'color': set_pos, or
\* setattr(stim, attr, value) for the four stimuli of self.stimuli
set(attr, pos, color) ==
    /\ kind # "None"
    /\ IF attr = "pos"
       THEN /\ SetPos(pos)
            /\ UNCHANGED colours
       ELSE /\ stim_color' = <<color, color, color, color>>
            /\ UNCHANGED <<filter_color, mask_color, positions>>
    /\ opacity' = <<>>
    /\ draw_log' = <<>>
    /\ mode_cmds' = <<>>
    /\ circmask' = None
    /\ last' = Call("set", [NoArgs EXCEPT !.attr = attr, !.pos = pos,
                                          !.color = color], "none")
    /\ UNCHANGED <<globals, class, oscillator, blend>>

-----------------------------------------------------------------------------
(* the oscillator: flicker() and _next() *)

\* Mutant of Increment: radians per host frame, the division by the 12
\* sub-frames left out
Increment_PerHostFrame(freq, rate) == FDivInt(FMulInt(PI, freq * 2), rate)

\* f = self.flicker_freq * 2 * np.pi / THIS.output_frame_rate / 12
Increment(freq, rate) == FDivInt(FDivInt(FMulInt(PI, freq * 2), rate), 12)

\* Mutant of FreqAccepted: the assert left out
FreqAccepted_Any(freq) == TRUE

\* assert freq >= 0, 'Flicker frequency must be positive or zero'
FreqAccepted(freq) == freq >= 0

flicker(freq) ==
    /\ kind # "None"
    /\ opacity' = <<>>
    /\ draw_log' = <<>>
    /\ mode_cmds' = <<>>
    /\ circmask' = None
    /\ UNCHANGED <<globals, class, colours, positions, blend>>
    /\ IF ~FreqAccepted(freq)
       THEN \* the assert fails before anything is assigned
            /\ last' = Call("flicker", [NoArgs EXCEPT !.freq = freq],
                            "AssertionError")
            /\ UNCHANGED oscillator
       ELSE IF output_frame_rate = 0
       THEN \* the division raises after phase and flicker_freq are assigned
            /\ phase' = Zero
            /\ hist' = <<Zero>>
            /\ flicker_freq' = freq
            /\ last' = Call("flicker", [NoArgs EXCEPT !.freq = freq],
                            "ZeroDivisionError")
            /\ UNCHANGED <<_freq, flickering>>
       ELSE /\ phase' = Zero
            /\ hist' = <<Zero>>
            /\ flicker_freq' = freq
            /\ _freq' = Increment(freq, output_frame_rate)
            /\ flickering' = (freq > 0)
            /\ last' = Call("flicker", [NoArgs EXCEPT !.freq = freq], "none")

\* Mutant of NextPhase: the wrap left out
NextPhase_NoWrap(ph, f) == FAdd(ph, f)

\* Mutant of NextPhase: wrapped to pi instead of 2 pi
NextPhase_WrapPi(ph, f) == FMod(FAdd(ph, f), PI)

\* _next: self.phase += self._freq
\*        self.phase = np.mod(self.phase, 2 * np.pi)
NextPhase(ph, f) == FMod(FAdd(ph, f), TWO_PI)

\* the phases after each of n successive _next() calls
RECURSIVE Phases(_, _, _)
Phases(ph, f, n) ==
    IF n = 0 THEN <<>>
    ELSE LET p == NextPhase(ph, f) IN <<p>> \o Phases(p, f, n - 1)

\* the opacities _next returns at the phases ps
RECURSIVE Opacities(_)
Opacities(ps) ==
    IF ps = <<>> THEN <<>> ELSE <<Waveform(Head(ps))>> \o Opacities(Tail(ps))

-----------------------------------------------------------------------------
(* the multiplexer and the colour assignment *)

\* Mutant of Reshape: column-major filling (order='F')
Reshape_OrderF(samples) ==
    << <<samples[1], samples[4], samples[7], samples[10]>>,
       <<samples[2], samples[5], samples[8], samples[11]>>,
       <<samples[3], samples[6], samples[9], samples[12]>> >>

\* np.reshape(opacity, [3, 4], order='C'): row c (a colour channel) holds
\* samples 4c .. 4c + 3
Reshape(samples) ==
    << <<samples[1], samples[2],  samples[3],  samples[4]>>,
       <<samples[5], samples[6],  samples[7],  samples[8]>>,
       <<samples[9], samples[10], samples[11], samples[12]>> >>

\* colors[:, n_quad]
Column(colors, n_quad) ==
    <<colors[1][n_quad + 1], colors[2][n_quad + 1], colors[3][n_quad + 1]>>

\* Mutant of OpacityAssign: every quadrant gets the first column
OpacityAssign_FirstColumn(colors) ==
    <<Column(colors, 0), Column(colors, 0), Column(colors, 0), Column(colors, 0)>>

\* OpacityFlickerStim._assign_mux_colors: the new self.stimuli[q].color
OpacityAssign(colors) ==
    <<Column(colors, 0), Column(colors, 1), Column(colors, 2), Column(colors, 3)>>

\* colors = (colors * 2) - 1
Rescale(colors) == [c \in 1..3 |-> [q \in 1..4 |-> colors[c][q] * 2 - OpScale]]

\* Mutant of BrightnessAssign: the rescaling to (-1)-1 left out
BrightnessAssign_NoRescale(colors) ==
    <<Column(colors, 0), Column(colors, 1), Column(colors, 2), Column(colors, 3)>>

\* BrightnessFlickerStim._assign_mux_colors: the new
\* self.image_filters.stimuli[q].color
BrightnessAssign(colors) == OpacityAssign(Rescale(colors))

\* self._assign_mux_colors(colors), dispatched on the class
AssignMuxColors(colors) ==
    IF kind = "OpacityFlickerStim"
    THEN /\ stim_color' = OpacityAssign(colors)
         /\ UNCHANGED <<filter_color, mask_color>>
    ELSE /\ filter_color' = BrightnessAssign(colors)
         /\ UNCHANGED <<stim_color, mask_color>>

\* Mutant of CycleRuns: the cycle runs whether flickering or not
CycleRuns_Always == TRUE

\* if self.flickering:
CycleRuns == flickering

\* Mutant of SamplesPerCycle: the cycle is run twice in one draw()
SamplesPerCycle_Twice == 2 * 12

\* opacity = [self._next() for _ in range(12)]
SamplesPerCycle == 12

\* _multiplex
Multiplex ==
    IF CycleRuns
    THEN \E ps \in {Phases(phase, _freq, SamplesPerCycle)} :
         \E samples \in {Opacities(ps)} :
             /\ phase' = ps[SamplesPerCycle]
             /\ hist' = hist \o ps
             /\ opacity' = samples
             /\ AssignMuxColors(Reshape(samples))
    ELSE /\ opacity' = <<>>
         /\ UNCHANGED <<phase, hist, colours>>

\* the 3 x 4 arrays of a direct call of _assign_mux_colors: a stub
\* oscillator's samples 0..11, and columns (0.2, 0.5, 0.9)
TestGrids ==
    { Reshape(<<0, 1, 2, 3, 4, 5, 6, 7, 8, 9, 10, 11>>),
      <<<<200, 200, 200, 200>>, <<500, 500, 500, 500>>, <<900, 900, 900, 900>>>> }

_assign_mux_colors(colors) ==
    /\ kind # "None"
    /\ AssignMuxColors(colors)
    /\ opacity' = <<>>
    /\ draw_log' = <<>>
    /\ mode_cmds' = <<>>
    /\ circmask' = None
    /\ last' = Call("_assign_mux_colors", [NoArgs EXCEPT !.colors = colors],
                    "none")
    /\ UNCHANGED <<globals, class, oscillator, positions, blend>>

-----------------------------------------------------------------------------
(* draw() *)

Ev(ev, quad, rule) == [ev |-> ev, quad |-> quad, blend |-> rule]

Layers == {"stimuli", "image_filters", "mask_stimuli"}

\* QuadStim.draw: for stim in self.stimuli: stim.draw(), under blend rule b
QuadDraws(layer, b) ==
    <<Ev(layer, 0, b), Ev(layer, 1, b), Ev(layer, 2, b), Ev(layer, 3, b)>>

\* OpacityFlickerStim.draw, entered with blend rule b
OpacityDrawPlan(b) ==
    <<Ev("_multiplex", 0, b)>> \o QuadDraws("stimuli", b)

\* BrightnessFlickerStim.draw, entered with blend rule b
BrightnessDrawPlan(b, m) ==
    <<Ev("_multiplex", 0, b)>>
    \o QuadDraws("stimuli", b)
    \o <<Ev("glBlendFunc", 0, "GL_DST_COLOR")>>
    \o QuadDraws("image_filters", "GL_DST_COLOR")
    \o <<Ev("glBlendFunc", 0, "GL_SRC_ALPHA")>>
    \o (IF m THEN QuadDraws("mask_stimuli", "GL_SRC_ALPHA") ELSE <<>>)

DrawPlan ==
    IF kind = "OpacityFlickerStim"
    THEN OpacityDrawPlan(blend)
    ELSE BrightnessDrawPlan(blend, masked)

\* the blend rule after the steps done, entered with rule b
RECURSIVE BlendAfter(_, _)
BlendAfter(done, b) ==
    IF done = <<>> THEN b
    ELSE IF done[Len(done)].ev = "glBlendFunc" THEN done[Len(done)].blend
    ELSE BlendAfter(SubSeq(done, 1, Len(done) - 1), b)

\* the quadrants whose stim.draw() may raise
FailQuads == {1}

\* the steps of the plan that may raise: stim.draw() of the presentation
\* layer
FailPoints(plan) ==
    {i \in 1..Len(plan) : plan[i].ev \in Layers /\ plan[i].quad \in FailQuads}

\* draw(): fail = 0 when every stim.draw() returns, fail = i when the i-th
\* step of the plan raises and the exception leaves draw()
draw ==
    /\ kind # "None"
    /\ CycleRuns => Len(hist) - 1 + SamplesPerCycle <= MaxSamples
    /\ Multiplex
    /\ \E fail \in {0} \cup FailPoints(DrawPlan) :
         LET done == IF fail = 0 THEN DrawPlan
                     ELSE SubSeq(DrawPlan, 1, fail - 1)
         IN  /\ draw_log' = done
             /\ mode_cmds' = <<>>
             /\ circmask' = None
             /\ blend' = BlendAfter(done, blend)
             /\ last' = Call("draw", [NoArgs EXCEPT !.fail = fail],
                             IF fail = 0 THEN "none" ELSE "DrawError")
    /\ UNCHANGED <<globals, class, flickering, flicker_freq, _freq, positions>>

-----------------------------------------------------------------------------
(* _inv_circle_mask() *)

\* radslice = slice(-int(radius), int(radius)) with radius = size / 2: the
\* coordinates np.ogrid gives, -int(radius) .. int(radius) - 1
Radslice(size) == [i \in 1..(2 * (size \div 2)) |-> i - 1 - (size \div 2)]

\* rsq = xpos**2 + ypos**2
Rsq(x, y) == x * x + y * y

\* circmask = rsq <= radius**2, with radius = size / 2 (true division)
InCircle(x, y, size) == 4 * Rsq(x, y) <= size * size

\* Mutant of Invert: the inversion left out
Invert_Not(b) == b

\* circmask = ~circmask
Invert(b) == ~b

\* circmask = circmask * 2 - 1
RescaleBool(b) == (IF b THEN 1 ELSE 0) * 2 - 1

\* the array _inv_circle_mask(size) returns, row by row
InvCircleMask(size) ==
    LET r == Radslice(size)
    IN  [i \in DOMAIN r |->
            [j \in DOMAIN r |->
                RescaleBool(Invert(InCircle(r[i], r[j], size)))]]

_inv_circle_mask(size) ==
    /\ circmask' = InvCircleMask(size)
    /\ opacity' = <<>>
    /\ draw_log' = <<>>
    /\ mode_cmds' = <<>>
    /\ last' = Call("_inv_circle_mask", [NoArgs EXCEPT !.size = size], "none")
    /\ UNCHANGED <<globals, class, oscillator, colours, positions, blend>>

-----------------------------------------------------------------------------

Next ==
    \/ \E cls \in Classes, mask \in Masks, pos \in Positions :
           __init__(cls, mask, pos)
    \/ \E use_propixx \in BOOLEAN : init(use_propixx)
    \/ close
    \/ \E pos \in Positions : set_pos(pos)
    \/ \E pos \in Positions : set("pos", pos, None)
    \/ \E color \in Colors : set("color", None, color)
    \/ \E freq \in Freqs : flicker(freq)
    \/ \E colors \in TestGrids : _assign_mux_colors(colors)
    \/ draw

Spec == Init /\ [][Next]_vars

\* _inv_circle_mask alone, applied to every size
MaskNext == \E size \in 1..MaxSize : _inv_circle_mask(size)

MaskSpec == Init /\ [][MaskNext]_vars

-----------------------------------------------------------------------------
(* exact arithmetic used to state the properties *)

\* floor(V / 2^s)
ShiftRight(V, s) ==
    LET a == s \div LimbBits
        b == s % LimbBits
        At(j) == IF j > NLimbs THEN 0 ELSE V[j]
    IN  [i \in 1..NLimbs |->
            (At(i + a) \div 2^b) + (At(i + a + 1) % 2^b) * 2^(LimbBits - b)]

\* |V - W|
AbsDiff(V, W) == IF Cmp(V, W) >= 0 THEN Sub(V, W) ELSE Sub(W, V)

\* a well-formed non-negative number
IsNumber(V) == DOMAIN V = 1..NLimbs /\ \A i \in 1..NLimbs : V[i] \in 0..(LimbBase - 1)

\* 0 <= ph < 2 pi
InRange(ph) == IsNumber(ph) /\ Cmp(ph, TWO_PI) < 0

-----------------------------------------------------------------------------
(* C1 *)

\* C1: after flicker(hz) with hz >= 0 and a host frame rate r > 0, from any
\* prior state: the call returns, phase = 0, flickering = (hz > 0), and _freq
\* is the double hz * 2 * pi / r / 12 (evaluated left to right), which lies
\* within 2^-51 (relative) of the real number hz * 2 pi / (12 r).
C1_FlickerSetsOscillator ==
    (last.op = "flicker" /\ last.args.freq >= 0 /\ output_frame_rate > 0) =>
        LET hz == last.args.freq
            r  == output_frame_rate
            exact == MulSmall(PI, 2 * hz)
        IN  /\ last.err = "none"
            /\ phase = Zero
            /\ flicker_freq = hz
            /\ flickering = (hz > 0)
            /\ _freq = FDivInt(FDivInt(FMulInt(PI, hz * 2), r), 12)
            /\ Cmp(AbsDiff(MulSmall(_freq, 12 * r), exact),
                   ShiftRight(exact, 51)) <= 0

\* flicker(45) at 120 Hz, called mid-presentation: a cycle has already set
\* the colours
C1_Witness ==
    /\ last.op = "flicker" /\ last.args.freq = 45 /\ last.err = "none"
    /\ output_frame_rate = 120
    /\ kind = "OpacityFlickerStim"
    /\ stim_color[1] # White
    /\ flickering /\ phase = Zero /\ _freq # Zero

-----------------------------------------------------------------------------
(* C2 *)

\* C2: flicker(hz) with hz < 0 fails (AssertionError) and leaves phase,
\* flicker_freq, _freq and flickering as they were before the call.
C2_NegativeFrequencyRejected ==
    [][ (last'.op = "flicker" /\ last'.args.freq < 0) =>
            /\ last'.err = "AssertionError"
            /\ UNCHANGED <<phase, flicker_freq, _freq, flickering>> ]_vars

\* flicker(-1) was refused while the stimulus was flickering mid-cycle
C2_Witness ==
    /\ last.op = "flicker" /\ last.args.freq < 0
    /\ last.err = "AssertionError"
    /\ flickering /\ flicker_freq > 0 /\ phase # Zero

-----------------------------------------------------------------------------
(* C3 *)

\* C3: in every reachable state the phase, and every phase a _next() sample
\* has produced since the last reset, lies in [0, 2 pi).
C3_PhaseInRange ==
    /\ InRange(phase)
    /\ \A i \in 1..Len(hist) : InRange(hist[i])
    /\ phase = hist[Len(hist)]

\* the phase has wrapped: a sample's phase is below its predecessor's
C3_Witness ==
    \E i \in 1..(Len(hist) - 1) : Cmp(hist[i + 1], hist[i]) < 0

-----------------------------------------------------------------------------
(* C4 *)

\* the distance of two phases on the circle of circumference 2 * np.pi
CircDist(a, b) ==
    LET d == AbsDiff(a, b)
    IN  IF Cmp(d, Sub(TWO_PI, d)) <= 0 THEN d ELSE Sub(TWO_PI, d)

\* (n + 5) * 2^-50 rad: half an ulp of a sum below 16 for each of n
\* additions, and the three roundings of the increment
RoundingBound(n) == MulSmall(Pow2(FracBits - 50), n + 5)

\* the oscillator runs at flicker_freq for the current host frame rate, and
\* the period output_frame_rate * 12 / flicker_freq is a whole number
Tuned ==
    /\ flickering /\ flicker_freq > 0 /\ output_frame_rate > 0
    /\ (output_frame_rate * 12) % flicker_freq = 0
    /\ _freq = FDivInt(FDivInt(FMulInt(PI, flicker_freq * 2),
                               output_frame_rate), 12)

Period == (output_frame_rate * 12) \div flicker_freq

\* C4 as claimed: N = r * 12 / f consecutive samples, from any phase, return
\* the phase to exactly its starting value, and no smaller positive number
\* of samples does.
C4_ExactPeriod ==
    Tuned =>
        \A i \in 1..Len(hist) :
            /\ i + Period <= Len(hist) => hist[i + Period] = hist[i]
            /\ \A m \in 1..(Period - 1) :
                   i + m <= Len(hist) => hist[i + m] # hist[i]

\* C4 as amended: N = r * 12 / f consecutive samples, from any phase, return
\* the phase to its starting value up to floating-point rounding: the two
\* differ (on the circle of circumference 2 * np.pi) by at most
\* (N + 5) * 2^-50 rad; and after any smaller positive number m of samples
\* the phase is at least one increment, less (m + 5) * 2^-50 rad, away from
\* its starting value.
C4_PeriodUpToRounding ==
    Tuned =>
        \A i \in 1..Len(hist) :
            /\ i + Period <= Len(hist) =>
                   Cmp(CircDist(hist[i + Period], hist[i]),
                       RoundingBound(Period)) <= 0
            /\ \A m \in 1..(Period - 1) :
                   i + m <= Len(hist) =>
                       Cmp(Add(CircDist(hist[i + m], hist[i]),
                               RoundingBound(m)), _freq) >= 0

\* a full period was sampled from phase 0 and from the next, non-zero,
\* phase, and the phase did not come back exactly
C4_Witness ==
    /\ Tuned
    /\ Len(hist) >= Period + 2
    /\ hist[1 + Period] # hist[1]
    /\ hist[2 + Period] # hist[2]

-----------------------------------------------------------------------------
(* C5 *)

StubSamples == <<0, 1, 2, 3, 4, 5, 6, 7, 8, 9, 10, 11>>

\* C5: in one cycle the i-th sample (i = 0..11, in call order: the opacity
\* at the i-th phase the cycle produced) is the colour channel i div 4 of
\* quadrant i mod 4 (rescaled for a BrightnessFlickerStim's filters); a stub
\* oscillator's samples 0..11 give the grid [[0,1,2,3],[4,5,6,7],[8,9,10,11]]
\* and quadrant q the colour (q, q + 4, q + 8).
C5_GridOrdering ==
    /\ (last.op = "draw" /\ opacity # <<>>) =>
           /\ Len(opacity) = 12
           /\ \A i \in 0..11 :
                  /\ opacity[i + 1] = Waveform(hist[Len(hist) - 12 + i + 1])
                  /\ IF kind = "OpacityFlickerStim"
                     THEN stim_color[(i % 4) + 1][(i \div 4) + 1] = opacity[i + 1]
                     ELSE filter_color[(i % 4) + 1][(i \div 4) + 1]
                              = opacity[i + 1] * 2 - OpScale
    /\ Reshape(StubSamples) = <<<<0, 1, 2, 3>>, <<4, 5, 6, 7>>, <<8, 9, 10, 11>>>>
    /\ (/\ last.op = "_assign_mux_colors"
        /\ last.args.colors = Reshape(StubSamples)
        /\ kind = "OpacityFlickerStim") =>
           \A q \in 0..3 : stim_color[q + 1] = <<q, q + 4, q + 8>>

\* a cycle of an OpacityFlickerStim whose samples differ has set the colours
C5_Witness ==
    /\ last.op = "draw" /\ kind = "OpacityFlickerStim"
    /\ Len(opacity) = 12
    /\ opacity[1] # opacity[2] /\ opacity[1] # opacity[5]
    /\ stim_color[2] = <<opacity[2], opacity[6], opacity[10]>>

-----------------------------------------------------------------------------
(* C6 *)

\* C6: OpacityFlickerStim._assign_mux_colors(grid) sets the colour of every
\* quadrant q to (grid[0][q], grid[1][q], grid[2][q]) and changes nothing
\* else: not the positions, the oscillator, the filters' or masks' colours,
\* the blend rule or the module's state.
C6_OpacityAssign ==
    [][ (last'.op = "_assign_mux_colors" /\ kind = "OpacityFlickerStim") =>
            /\ \A q \in 0..3 :
                   stim_color'[q + 1] = << last'.args.colors[1][q + 1],
                                           last'.args.colors[2][q + 1],
                                           last'.args.colors[3][q + 1] >>
            /\ UNCHANGED <<globals, class, oscillator, positions, blend,
                           filter_color, mask_color>> ]_vars

\* the grid with columns (0.2, 0.5, 0.9) assigned to a moved stimulus that
\* is flickering mid-cycle
C6_Witness ==
    /\ last.op = "_assign_mux_colors" /\ kind = "OpacityFlickerStim"
    /\ \A q \in 1..4 : stim_color[q] = <<200, 500, 900>>
    /\ flickering /\ phase # Zero
    /\ stim_pos = QuadLayout(<<10, 20>>)

-----------------------------------------------------------------------------
(* C7 *)

\* C7: for a BrightnessFlickerStim, applying a 3 x 4 grid (directly or in a
\* cycle of draw()) sets the colour of the filter of every quadrant q to
\* (2 grid[0][q] - 1, 2 grid[1][q] - 1, 2 grid[2][q] - 1), and no flicker(),
\* draw() or colour assignment changes the colour of a base stimulus or of a
\* mask stimulus.
C7_BrightnessAssign ==
    [][ kind = "BrightnessFlickerStim" =>
            /\ last'.op = "_assign_mux_colors" =>
                   \A q \in 0..3 :
                       filter_color'[q + 1] =
                           << last'.args.colors[1][q + 1] * 2 - OpScale,
                              last'.args.colors[2][q + 1] * 2 - OpScale,
                              last'.args.colors[3][q + 1] * 2 - OpScale >>
            /\ (last'.op = "draw" /\ opacity' # <<>>) =>
                   \A q \in 0..3 :
                       filter_color'[q + 1] =
                           << opacity'[q + 1] * 2 - OpScale,
                              opacity'[q + 5] * 2 - OpScale,
                              opacity'[q + 9] * 2 - OpScale >>
            /\ last'.op \in {"_assign_mux_colors", "flicker", "draw"} =>
                   UNCHANGED <<stim_color, mask_color>> ]_vars

\* columns (0.2, 0.5, 0.9) give the filters (-0.6, 0.0, 0.8); the base and
\* mask stimuli keep their colours
C7_Witness ==
    /\ last.op = "_assign_mux_colors" /\ kind = "BrightnessFlickerStim"
    /\ masked
    /\ \A q \in 1..4 : /\ filter_color[q] = <<-600, 0, 800>>
                       /\ stim_color[q] = White
                       /\ mask_color[q] = WinColor

-----------------------------------------------------------------------------
(* C8 *)

\* C8: while flickering is false a draw() leaves the phase and every colour
\* (base, filter, mask) unchanged; flicker() itself changes no colour, and
\* flicker(0) leaves flickering false, so the colours of the last cycle stay.
C8_FreezeOnZero ==
    [][ /\ (last'.op = "draw" /\ ~flickering) => UNCHANGED <<phase, colours>>
        /\ last'.op = "flicker" => UNCHANGED colours
        /\ (last'.op = "flicker" /\ last'.args.freq = 0) => ~flickering' ]_vars

\* draw() after flicker(0), the colours of the last cycle still in place
C8_Witness ==
    /\ last.op = "draw" /\ last.err = "none"
    /\ ~flickering /\ flicker_freq = 0 /\ output_frame_rate > 0
    /\ kind = "OpacityFlickerStim"
    /\ stim_color[2] \notin {White, WinColor, <<200, 500, 900>>, <<1, 5, 9>>}

-----------------------------------------------------------------------------
(* C9 *)

\* C9: whenever BrightnessFlickerStim.draw() hands control back, by a normal
\* return or by an error raised while the filters are drawn, the blend rule
\* is the default GL_SRC_ALPHA rule.
C9_BlendRestored ==
    (/\ last.op = "draw" /\ kind = "BrightnessFlickerStim"
     /\ \/ last.err = "none"
        \/ BrightnessDrawPlan("GL_SRC_ALPHA", masked)[last.args.fail].ev
               = "image_filters") =>
        blend = "GL_SRC_ALPHA"

-----------------------------------------------------------------------------
(* C10 *)

\* C10: the steps of a BrightnessFlickerStim.draw() are, in this order, the
\* multiplexer cycle, the four base quadrants under the default rule, the
\* switch to GL_DST_COLOR, the four filter quadrants under that rule, the
\* switch back to the default rule and, exactly when masked, the four mask
\* quadrants under the default rule (all of them when draw() returns, the
\* first of them when it raises); no base or mask quadrant is drawn under
\* GL_DST_COLOR and no filter quadrant under the default rule.
C10_DrawOrdering ==
    (last.op = "draw" /\ kind = "BrightnessFlickerStim") =>
        LET order == BrightnessDrawPlan("GL_SRC_ALPHA", masked)
        IN  /\ Len(draw_log) <= Len(order)
            /\ draw_log = SubSeq(order, 1, Len(draw_log))
            /\ last.err = "none" => Len(draw_log) = Len(order)
            /\ order[1].ev = "_multiplex"
            /\ \A i \in 1..Len(draw_log) :
                   /\ draw_log[i].ev \in {"stimuli", "mask_stimuli"} =>
                          draw_log[i].blend = "GL_SRC_ALPHA"
                   /\ draw_log[i].ev = "image_filters" =>
                          draw_log[i].blend = "GL_DST_COLOR"

-----------------------------------------------------------------------------
(* C11 *)

\* the calls that give the stimulus a position
Positioned(call) ==
    /\ call.err = "none"
    /\ \/ call.op \in {"__init__", "set_pos"}
       \/ call.op = "set" /\ call.args.attr = "pos"

\* C11: the four base quadrants are at (x, y), (x + W, y), (x, y - H) and
\* (x + W, y - H), where (W, H) = FRAME_RES and (x, y) is the position last
\* given by the constructor, set_pos(p) or set('pos', p); the filters of a
\* BrightnessFlickerStim, and its masks when masked, are where the base
\* quadrants are, in every state from the construction on.
C11_QuadLayoutCascade ==
    /\ [](kind # "None" =>
              LET x == stim_pos[1][1]
                  y == stim_pos[1][2]
                  W == FRAME_RES[1]
                  H == FRAME_RES[2]
              IN  /\ stim_pos = << <<x, y>>, <<x + W, y>>, <<x, y - H>>,
                                   <<x + W, y - H>> >>
                  /\ Positioned(last) => <<x, y>> = last.args.pos
                  /\ kind = "BrightnessFlickerStim" => filter_pos = stim_pos
                  /\ (kind = "BrightnessFlickerStim" /\ masked) =>
                         mask_pos = stim_pos)
    /\ [][ ~Positioned(last') => UNCHANGED positions ]_vars

\* set('pos', (10, 20)) on a masked BrightnessFlickerStim constructed at
\* FRAME_CENTER moved the base quadrants, the filters and the masks
C11_Witness ==
    /\ kind = "BrightnessFlickerStim" /\ masked
    /\ last.op = "set" /\ last.args.attr = "pos" /\ last.args.pos = <<10, 20>>
    /\ mask_pos[4] = <<970, -520>>
    /\ filter_pos[2] = <<970, 20>>
    /\ stim_pos[3] = <<10, -520>>

-----------------------------------------------------------------------------
(* C12 *)

\* C12: constructing a BrightnessFlickerStim with a mask other than
\* 'circle' raises NotImplementedError; no stimulus comes to exist, the
\* oscillator, the blend rule and the module's propixx_on and
\* output_frame_rate are as before the call, and while there is no stimulus
\* nothing is drawn and the blend rule is the default one.
C12_UnsupportedMask ==
    /\ [][ (/\ last'.op = "__init__"
            /\ last'.args.cls = "BrightnessFlickerStim"
            /\ last'.args.mask \notin {"", "circle"}) =>
               /\ last'.err = "NotImplementedError"
               /\ kind' = "None"
               /\ draw_log' = <<>>
               /\ UNCHANGED <<globals, oscillator, colours, positions,
                              blend>> ]_vars
    /\ [](kind = "None" =>
              /\ last.op \in {"import", "__init__", "init", "close"}
              /\ draw_log = <<>>
              /\ blend = "GL_SRC_ALPHA")

\* mask = 'square' refused after init(True)
C12_Witness ==
    /\ last.op = "__init__" /\ last.err = "NotImplementedError"
    /\ last.args.cls = "BrightnessFlickerStim" /\ last.args.mask = "square"
    /\ kind = "None"
    /\ propixx_on /\ output_frame_rate = 120

-----------------------------------------------------------------------------
(* C13, under MaskSpec *)

\* the coordinate of the cell of 0-based index k: 0 at the centre cell
Coord(k, size) == k - (size \div 2)

\* the mask is size x size with value inside at the cells no farther than
\* size / 2 from the centre cell and value outside at the others
MaskIs(size, inside, outside) ==
    /\ DOMAIN circmask = 1..size
    /\ \A i \in 1..size :
           /\ DOMAIN circmask[i] = 1..size
           /\ \A j \in 1..size :
                  LET x == Coord(i - 1, size)
                      y == Coord(j - 1, size)
                  IN  circmask[i][j] =
                          IF 4 * (x * x + y * y) > size * size
                          THEN outside ELSE inside

\* the centre cell and the four corner cells of the mask of size 8
Centre8 == circmask[5][5]
Corners8 == {circmask[1][1], circmask[1][8], circmask[8][1], circmask[8][8]}

\* C13 as claimed: for every even size, _inv_circle_mask(size) is -1 at the
\* cells farther than size / 2 from the centre and +1 at the others; for
\* size 8 the centre cell is +1 and the four corners are -1.
C13_MaskSignAsClaimed ==
    (last.op = "_inv_circle_mask" /\ last.args.size % 2 = 0) =>
        /\ MaskIs(last.args.size, 1, -1)
        /\ last.args.size = 8 => Centre8 = 1 /\ Corners8 = {-1}

\* C13 as amended: for every even size, _inv_circle_mask(size) is +1 at the
\* cells farther than size / 2 from the centre and -1 at the others; for
\* size 8 the centre cell is -1 and the four corners are +1.
C13_MaskSign ==
    (last.op = "_inv_circle_mask" /\ last.args.size % 2 = 0) =>
        /\ MaskIs(last.args.size, -1, 1)
        /\ last.args.size = 8 => Centre8 = -1 /\ Corners8 = {1}

\* the mask of size 8, which has cells of both signs off the corners
C13_Witness ==
    /\ last.op = "_inv_circle_mask" /\ last.args.size = 8
    /\ Len(circmask) = 8
    /\ circmask[1][5] = -1 /\ circmask[1][4] = 1 /\ circmask[8][8] = 1

-----------------------------------------------------------------------------
(* C18, under MaskSpec *)

\* C18: for every size >= 1, odd or even, _inv_circle_mask(size) has
\* exactly size rows and size columns.
C18_MaskGridSize ==
    last.op = "_inv_circle_mask" =>
        /\ DOMAIN circmask = 1..last.args.size
        /\ \A i \in DOMAIN circmask : DOMAIN circmask[i] = 1..last.args.size

-----------------------------------------------------------------------------
(* C14 *)

\* C14 as claimed: init(use_propixx), for either value of use_propixx,
\* issues the mode switch once, with code 5, close() issues it once, with
\* code 0, and no other call issues it: a session of one init(), any
\* flicker() and draw() calls and one close() issues it exactly twice.
C14_TwoCommandsPerSession ==
    [][ /\ last'.op = "init" => mode_cmds' = <<5>> /\ hw_mode' = 5
        /\ last'.op = "close" => mode_cmds' = <<0>> /\ hw_mode' = 0
        /\ last'.op \notin {"init", "close"} =>
               mode_cmds' = <<>> /\ UNCHANGED hw_mode ]_vars

\* C14 as amended: init(True) issues the mode switch once, with code 5,
\* init(False) does not issue it, close() issues it once, with code 0, and
\* no other call issues it: a session begun with init(True) issues it
\* exactly twice, 5 then 0, and a session begun with init(False) exactly
\* once, 0 at close().
C14_ModeCommands ==
    [][ /\ (last'.op = "init" /\ last'.args.use_propixx) =>
               mode_cmds' = <<5>> /\ hw_mode' = 5
        /\ (last'.op = "init" /\ ~last'.args.use_propixx) =>
               mode_cmds' = <<>> /\ UNCHANGED hw_mode
        /\ last'.op = "close" => mode_cmds' = <<0>> /\ hw_mode' = 0
        /\ last'.op \notin {"init", "close"} =>
               mode_cmds' = <<>> /\ UNCHANGED hw_mode ]_vars

\* close() at the end of a session begun with init(False) in which a
\* stimulus flickered and was drawn
C14_Witness ==
    /\ last.op = "close" /\ mode_cmds = <<0>> /\ hw_mode = 0
    /\ ~propixx_on /\ output_frame_rate = 60
    /\ kind # "None" /\ flickering /\ Len(hist) > 1

-----------------------------------------------------------------------------
(* C15 *)

\* C15: in every state in which a stimulus exists and output_frame_rate is
\* not 0, whatever init(), close(), flicker() and draw() calls came before,
\* _freq is flicker_freq * 2 * pi / output_frame_rate / 12 for the current
\* output_frame_rate.
C15_IncrementInvariant ==
    (kind # "None" /\ output_frame_rate # 0) =>
        _freq = FDivInt(FDivInt(FMulInt(PI, flicker_freq * 2),
                                output_frame_rate), 12)

-----------------------------------------------------------------------------
(* C16 *)

\* the number of multiplexer cycles a call ran
RECURSIVE Cycles(_)
Cycles(log) ==
    IF log = <<>> THEN 0
    ELSE (IF log[1].ev = "_multiplex" THEN 1 ELSE 0) + Cycles(Tail(log))

\* the draw() calls that ran a cycle since the last flicker()
Draws == (Len(hist) - 1) \div 12

-----------------------------------------------------------------------------
(* C17 *)

\* C17: once init() has been called, output_frame_rate is 120 exactly when
\* the mode last sent to the projector is 5, and 60 exactly when it is the
\* normal mode 0.
C17_RateTracksMode ==
    output_frame_rate # 0 =>
        /\ output_frame_rate \in {60, 120}
        /\ output_frame_rate = 120 <=> hw_mode = 5
        /\ output_frame_rate = 60 <=> hw_mode = 0

-----------------------------------------------------------------------------
(* C19 *)

\* C19: a flicker() that ends in an error, whether by the assert or by the
\* division by an output_frame_rate of 0, leaves phase, flicker_freq, _freq
\* and flickering as they were, and flickering = (flicker_freq > 0) holds
\* after every step.
C19_FlickerAtomic ==
    [][ /\ (last'.op = "flicker" /\ last'.err # "none") =>
               UNCHANGED <<phase, flicker_freq, _freq, flickering>>
        /\ flickering' = (flicker_freq' > 0) ]_vars

=============================================================================
